---- MODULE Spec2Model ----
(***************************************************************************)
(* A model of gitstate (joshua-laughner/PyGitState): the upward walk that  *)
(* locates the Git repository of a path (repo_utils._get_git_repo), the    *)
(* scan of the loaded modules (repo_utils.list_imported_repos), the state  *)
(* formatter (repo_utils.repo_state_string) and the two writers of the     *)
(* package (print_repos, save_states_to_file).                             *)
(*                                                                         *)
(* A path is the sequence of its components below the filesystem root, so  *)
(* <<>> is "/" and <<"home", "pkg">> is "/home/pkg". Text is a TLA+ string *)
(* (a sequence of characters: Len, \o and SubSeq apply to it).             *)
(***************************************************************************)
EXTENDS Integers, Sequences, FiniteSets, TLC

VARIABLES
    repoRoots,   \* the directories at which git.Repo(path) succeeds
    pypath,      \* _pypath: the search-boundary directories
    markers,     \* the directories that directly hold a .gitrepo file
    cwd,         \* os.getcwd()
    repoState,   \* the state git reports for the repository at each root
    sys_modules, \* sys.modules: the loaded modules, in enumeration order
    op,          \* the operation being run
    arg,         \* the argument of the operation
    pc,          \* "ready" | "returned" | "raised"
    error,       \* the exception that left the operation, "" when none
    result,      \* what the operation returned
    stdout,      \* the lines written to standard output
    file,        \* the target file of save_states_to_file
    file0,       \* the content of that file before the operation
    tested,      \* the paths handed to git.Repo by the last walk
    repos        \* the mapping the operation got from list_imported_repos

vars == <<repoRoots, pypath, markers, cwd, repoState, sys_modules, op, arg, pc,
          error, result, stdout, file, file0, tested, repos>>

\* What an operation never changes: the filesystem, git, the interpreter.
world == <<repoRoots, pypath, markers, cwd, repoState, sys_modules, op, arg, file0>>

----------------------------------------------------------------------------
(* Bounds of the model. *)

\* The deepest path the walk is started from has MaxDepth components.
MaxDepth == 3

\* The largest number of records in sys.modules.
MaxMods == 2

\* The largest number of modified (and of untracked) files of a repository.
MaxFiles == 2

(* The program's constant. *)

\* safety = 1000: the number of directory levels the walk may test.
SafetyStart == 1000

----------------------------------------------------------------------------
(* Paths and text. *)

\* The name of the i-th component of the paths the walk is started from:
\* /home/GitHub/pkg/sub/..., a checkout below a directory named after Git.
NameAt(i) ==
    CASE i = 1 -> "home"
      [] i = 2 -> "GitHub"
      [] i = 3 -> "pkg"
      [] OTHER -> "sub"

\* The path of n components made of these names.
DeepPath(n) == [i \in 1..n |-> NameAt(i)]

\* p is d or lies below d.
IsPrefix(d, p) == Len(d) <= Len(p) /\ SubSeq(p, 1, Len(d)) = d

\* The directories from p up to the root, p included.
Ancestors(p) == {SubSeq(p, 1, k) : k \in 0..Len(p)}

\* os.path.normpath of an absolute path: "." is dropped and ".." removes the
\* component before it; the root is its own parent.
RECURSIVE NormPath(_)
NormPath(p) ==
    IF p = <<>> THEN <<>>
    ELSE LET front == NormPath(SubSeq(p, 1, Len(p) - 1))
             last == p[Len(p)]
         IN IF last = "." THEN front
            ELSE IF last = ".."
                 THEN IF front = <<>> THEN <<>> ELSE SubSeq(front, 1, Len(front) - 1)
                 ELSE Append(front, last)

\* os.path.join(path, name) on component sequences.
Join(path, name) == Append(path, name)

\* os.path.abspath: a relative path is taken below the working directory,
\* then normalised.
AbsPath(p) == NormPath(IF p.rel THEN cwd \o p.comps ELSE p.comps)

\* The text of an absolute path.
RECURSIVE PathStr(_)
PathStr(p) ==
    IF p = <<>> THEN "/"
    ELSE IF Len(p) = 1 THEN "/" \o p[1]
    ELSE PathStr(SubSeq(p, 1, Len(p) - 1)) \o "/" \o p[Len(p)]

\* str.lower on one character.
LowerChar(c) ==
    CASE c = "G" -> "g"
      [] c = "I" -> "i"
      [] c = "T" -> "t"
      [] c = "H" -> "h"
      [] c = "U" -> "u"
      [] c = "B" -> "b"
      [] OTHER -> c

\* str.lower.
RECURSIVE Lower(_)
Lower(s) ==
    IF Len(s) = 0 THEN ""
    ELSE Lower(SubSeq(s, 1, Len(s) - 1)) \o LowerChar(SubSeq(s, Len(s), Len(s)))

\* needle in hay.
Contains(hay, needle) ==
    \E i \in 1..(Len(hay) - Len(needle) + 1) :
        SubSeq(hay, i, i + Len(needle) - 1) = needle

\* s is a strict prefix of t.
StrictPrefix(s, t) == Len(s) < Len(t) /\ SubSeq(t, 1, Len(s)) = s

----------------------------------------------------------------------------
(* git.Repo *)

\* None, as a repository.
NoRepo == [found |-> FALSE, working_dir |-> <<>>, git_dir |-> <<>>]

\* The handle git.Repo(path) returns when path is a repository root.
Repo(path) == [found |-> TRUE, working_dir |-> path, git_dir |-> Join(path, ".git")]

\* git.Repo(path) raises InvalidGitRepositoryError unless path is a root.
IsRepoRoot(path) == path \in repoRoots

----------------------------------------------------------------------------
(* _get_git_repo *)

\* A faulty at_dir_in_syspath, which finds no directory on the search path.
at_dir_in_syspath_never(curr_path) == FALSE

\* curr_path in _pypath
at_dir_in_syspath(curr_path) == curr_path \in pypath

\* A faulty in_subrepo, which never sees the marker file.
in_subrepo_ignores_marker(path) == FALSE

\* os.path.isfile(os.path.join(path, '.gitrepo'))
in_subrepo(path) == path \in markers

\* A faulty move_up, which counts the step and stays where it is.
move_up_stays(s) == [s EXCEPT !.safety = s.safety - 1]

\* path = abspath(join(path, '..')); safety -= 1
move_up(s) ==
    [s EXCEPT !.path = NormPath(Join(s.path, "..")), !.safety = s.safety - 1]

\* One pass through the body of "while safety > 0".
LoopBody(s) ==
    LET out1 == IF Contains(Lower(PathStr(s.path)), "git")
                THEN Append(s.out, PathStr(s.path))
                ELSE s.out
        hit == at_dir_in_syspath(s.path)
        break_after_loop == IF hit THEN TRUE ELSE s.break_after_loop
        was_in_subrepo == IF hit THEN in_subrepo(s.path) ELSE FALSE
        s1 == [s EXCEPT !.out = out1,
                        !.break_after_loop = break_after_loop,
                        !.tested = s.tested \cup {s.path}]
    IN IF IsRepoRoot(s.path)
       THEN [s1 EXCEPT !.status = "returned", !.repo = Repo(s.path)]
       ELSE IF break_after_loop /\ ~was_in_subrepo
            THEN [move_up(s1) EXCEPT !.status = "returned", !.repo = NoRepo]
            ELSE move_up(s1)

\* "while safety > 0: body", run for at most k passes. Every pass that does
\* not return lowers safety by one, so s.safety passes run the loop out; the
\* passes are split in halves to keep the evaluation shallow.
RECURSIVE WhileLoop(_, _)
WhileLoop(k, s) ==
    IF s.status # "loop" \/ ~(s.safety > 0) THEN s
    ELSE IF k <= 1 THEN LoopBody(s)
    ELSE WhileLoop(k - (k \div 2), WhileLoop(k \div 2, s))

\* The end of _get_git_repo once its loop has ended in s: the loop returned,
\* or it ran out and the RuntimeError of line 68 is raised.
WalkEnd(s) ==
    IF s.status = "loop"
    THEN [s EXCEPT !.status = "raised", !.error = "RuntimeError"]
    ELSE s

\* _get_git_repo(path), writing after the lines of out. The outcome holds
\* the status ("returned" or "raised"), the error raised, the repository
\* returned (NoRepo for None), the output and the paths handed to git.Repo.
get_git_repo(path, out) ==
    IF path.kind = "None"
    THEN \* os.path.abspath(None) raises TypeError
         [status |-> "raised", error |-> "TypeError", repo |-> NoRepo,
          out |-> out, tested |-> {}, path |-> <<>>, safety |-> SafetyStart,
          break_after_loop |-> FALSE]
    ELSE WalkEnd(WhileLoop(SafetyStart,
                           [status |-> "loop", error |-> "", repo |-> NoRepo,
                            out |-> out, tested |-> {}, path |-> AbsPath(path),
                            safety |-> SafetyStart, break_after_loop |-> FALSE]))

----------------------------------------------------------------------------
(* list_imported_repos *)

\* The position of key in an insertion-ordered dict, 0 when it is no key.
KeyIndex(d, key) ==
    IF \E i \in 1..Len(d) : d[i].key = key
    THEN CHOOSE i \in 1..Len(d) : d[i].key = key
    ELSE 0

\* d[key] = value on an insertion-ordered dict: a key already there keeps its
\* place and takes the new value.
DictSet(d, key, value) ==
    IF KeyIndex(d, key) = 0
    THEN Append(d, [key |-> key, value |-> value])
    ELSE [d EXCEPT ![KeyIndex(d, key)].value = value]

\* A faulty comparison, which also replaces a name by one of the same length.
prev_name_longer_or_equal(prev_name, name) == Len(prev_name) >= Len(name)

\* len(prev_entry['name']) > len(name)
prev_name_longer(prev_name, name) == Len(prev_name) > Len(name)

\* The body of "for name, mod in sys.modules.items()" for the module m, from
\* the end r of its call of _get_git_repo on.
AfterWalk(st, m, r) ==
    LET st1 == [st EXCEPT !.out = r.out]
        i == KeyIndex(st.repos, r.repo.git_dir)
    IN IF r.status = "raised"
       THEN [st1 EXCEPT !.status = "raised", !.error = r.error]
       ELSE IF ~r.repo.found
       THEN \* this_repo is None: continue
            st1
       ELSE IF i # 0
       THEN IF prev_name_longer(st.repos[i].value.name, m.name)
            THEN [st1 EXCEPT !.repos[i].value.name = m.name]
            ELSE st1
       ELSE [st1 EXCEPT !.repos =
                DictSet(@, r.repo.git_dir, [name |-> m.name, repo |-> r.repo])]

\* The body of "for name, mod in sys.modules.items()" for the module m.
ScanBody(st, m) ==
    IF m.file.kind = "absent"
    THEN \* mod.__file__ raises AttributeError: continue
         st
    ELSE AfterWalk(st, m, get_git_repo(m.file, st.out))

\* The loop over the modules, from the i-th on; an exception ends it.
RECURSIVE ScanLoop(_, _, _)
ScanLoop(st, mods, i) ==
    IF i > Len(mods) \/ st.status = "raised" THEN st
    ELSE ScanLoop(ScanBody(st, mods[i]), mods, i + 1)

\* {val['name']: val['repo'] for val in repos.values()}
RECURSIVE rekey_by_name(_)
rekey_by_name(entries) ==
    IF entries = <<>> THEN <<>>
    ELSE LET last == entries[Len(entries)].value
         IN DictSet(rekey_by_name(SubSeq(entries, 1, Len(entries) - 1)),
                    last.name, last.repo)

\* The end of list_imported_repos once its loop has ended in st.
ScanEnd(st) ==
    IF st.status = "raised"
    THEN [status |-> "raised", error |-> st.error, result |-> <<>>, out |-> st.out]
    ELSE [status |-> "returned", error |-> "", result |-> rekey_by_name(st.repos),
          out |-> st.out]

\* list_imported_repos() over the modules mods, writing after the lines of
\* out: the status, the error raised, the mapping returned and the output.
list_imported_repos(mods, out) ==
    ScanEnd(ScanLoop([status |-> "loop", error |-> "", repos |-> <<>>, out |-> out],
                     mods, 1))

----------------------------------------------------------------------------
(* list_repo_state and repo_state_string *)

\* '{}'.format(n) of a natural number: its decimal digits.
RECURSIVE Str(_)
Str(n) ==
    IF n < 10 THEN SubSeq("0123456789", n + 1, n + 1)
    ELSE Str(n \div 10) \o SubSeq("0123456789", (n % 10) + 1, (n % 10) + 1)

\* sep.join(items)
RECURSIVE StrJoin(_, _)
StrJoin(sep, items) ==
    IF items = <<>> THEN ""
    ELSE IF Len(items) = 1 THEN items[1]
    ELSE StrJoin(sep, SubSeq(items, 1, Len(items) - 1)) \o sep \o items[Len(items)]

\* s[:n]
Slice(s, n) == SubSeq(s, 1, IF Len(s) < n THEN Len(s) ELSE n)

\* list_repo_state(repo): what git reports for the repository.
list_repo_state(repo) == repoState[repo.working_dir]

\* A faulty diff section, which is left out.
diff_section_dropped(state) == ""

\* '\n\n  Difference versus HEAD:\n\n' + diff_msg + '\n\n'
diff_section(state) ==
    "\n\n  Difference versus HEAD:\n\n" \o state.diff_vs_head \o "\n\n"

\* repo_state_string(repo, detail)
repo_state_string(repo, detail) ==
    LET state == list_repo_state(repo)
        status_msg == "HEAD " \o Slice(state.HEAD, 7) \o " (" \o state.branch \o ")"
        modified_files == state.modified_files
        mod_msg == Str(Len(modified_files)) \o " files modifed"
        untracked_files == state.untracked_files
        untr_msg == Str(Len(untracked_files)) \o " untracked files"
        listsep == "\n    * "
        mod_list == listsep \o StrJoin(listsep, modified_files)
        untr_list == listsep \o StrJoin(listsep, untracked_files)
        listing == status_msg \o ":\n  " \o mod_msg \o mod_list
                       \o "\n  " \o untr_msg \o untr_list
    IN IF detail = 0 THEN status_msg
       ELSE IF detail = 1 THEN status_msg \o " - " \o mod_msg \o ", " \o untr_msg
       ELSE IF detail > 2 THEN listing \o diff_section(state)
       ELSE listing

\* The texts the loop "for name, repo in repos.items()" makes of a mapping,
\* each ending with the text end.
StatusLines(mapping, detail, end) ==
    [k \in 1..Len(mapping) |->
        mapping[k].key \o ": " \o repo_state_string(mapping[k].value, detail) \o end]

----------------------------------------------------------------------------
(* The operations. Each runs from pc = "ready" to "returned" or "raised". *)

\* A path given as text: relative or absolute, with its components.
StrPath(rel, comps) == [kind |-> "str", rel |-> rel, comps |-> comps]

\* A file: whether it exists, and the texts written to it.
NoFile == [exists |-> FALSE, content |-> <<>>]

\* Before the operation starts: nothing returned, nothing written.
Ready ==
    /\ pc = "ready"
    /\ error = ""
    /\ result = <<>>
    /\ stdout = <<>>
    /\ file = file0
    /\ tested = {}
    /\ repos = <<>>

\* _get_git_repo(arg), called on its own.
GetGitRepoCall ==
    /\ pc = "ready"
    /\ op = "_get_git_repo"
    /\ \E r \in {get_git_repo(arg, stdout)} :
          /\ pc' = r.status
          /\ error' = r.error
          /\ result' = r.repo
          /\ stdout' = r.out
          /\ tested' = r.tested
    /\ UNCHANGED <<world, file, repos>>

\* list_imported_repos(), called on its own.
ListImportedReposCall ==
    /\ pc = "ready"
    /\ op = "list_imported_repos"
    /\ \E r \in {list_imported_repos(sys_modules, stdout)} :
          /\ pc' = r.status
          /\ error' = r.error
          /\ result' = r.result
          /\ repos' = r.result
          /\ stdout' = r.out
    /\ UNCHANGED <<world, file, tested>>

\* repo_state_string(repo, detail), for a detail level not asked for yet: the
\* result maps each level asked for to the text returned.
RepoStateStringCall ==
    /\ pc = "ready"
    /\ op = "repo_state_string"
    /\ \E detail \in (0..3) \ DOMAIN result :
          result' = (detail :> repo_state_string(arg.repo, detail)) @@ result
    /\ UNCHANGED <<world, pc, error, stdout, file, tested, repos>>

\* print_repos(detail)
PrintRepos ==
    /\ pc = "ready"
    /\ op = "print_repos"
    /\ \E r \in {list_imported_repos(sys_modules, stdout)} :
          /\ pc' = r.status
          /\ error' = r.error
          /\ repos' = r.result
          /\ stdout' = r.out \o StatusLines(r.result, arg.detail, "")
    /\ UNCHANGED <<world, result, file, tested>>

\* save_states_to_file(filename, detail): open(filename, 'w') empties the
\* file before the scan starts; the with-block closes it on every way out.
SaveStatesToFile ==
    /\ pc = "ready"
    /\ op = "save_states_to_file"
    /\ \E r \in {list_imported_repos(sys_modules, stdout)} :
          /\ pc' = r.status
          /\ error' = r.error
          /\ repos' = r.result
          /\ stdout' = r.out
          /\ file' = [exists |-> TRUE,
                      content |-> StatusLines(r.result, arg.detail, "\n")]
    /\ UNCHANGED <<world, result, tested>>

----------------------------------------------------------------------------
(* The walk on its own: every path of at most MaxDepth components, given   *)
(* absolute or relative to the working directory, in every filesystem that *)
(* differs on the directories the walk can meet.                           *)

WalkArgs ==
    {StrPath(FALSE, DeepPath(n)) : n \in 0..MaxDepth}
        \cup {StrPath(TRUE, SubSeq(DeepPath(n), 2, n)) : n \in 1..MaxDepth}

InitWalk ==
    /\ op = "_get_git_repo"
    /\ cwd = DeepPath(1)
    /\ arg \in WalkArgs
    /\ repoRoots \in SUBSET Ancestors(AbsPath(arg))
    /\ pypath \in SUBSET Ancestors(AbsPath(arg))
    /\ markers \in SUBSET Ancestors(AbsPath(arg))
    /\ repoState = <<>>
    /\ sys_modules = <<>>
    /\ file0 = NoFile
    /\ Ready

NextWalk == GetGitRepoCall

SpecWalk == InitWalk /\ [][NextWalk]_vars

----------------------------------------------------------------------------
(* The scan and the writers: up to MaxMods modules named pkg, pkg.sub and   *)
(* abc, each with a file in /home/GitHub or /home/lib, with no __file__ or *)
(* with __file__ = None; repositories at any of /home, /home/GitHub and    *)
(* /home/lib; sys.path holding "/", "/" and /home/lib (with and without a  *)
(* marker there) or nothing at or above the modules.                       *)

ModNames == {"pkg", "pkg.sub", "abc"}

GitHubDir == <<"home", "GitHub">>

LibDir == <<"home", "lib">>

ModFiles ==
    { StrPath(FALSE, Join(GitHubDir, "m.py")),
      StrPath(TRUE, <<"lib", "m.py">>),
      [kind |-> "absent", rel |-> FALSE, comps |-> <<>>],
      [kind |-> "None", rel |-> FALSE, comps |-> <<>>] }

\* The sequences of at most n modules with different names.
\* The name nm is not the name of a module of ms.
Unused(nm, ms) == \A i \in 1..Len(ms) : ms[i].name # nm

RECURSIVE ModSeqs(_)
ModSeqs(n) ==
    IF n = 0 THEN {<<>>}
    ELSE LET shorter == ModSeqs(n - 1)
             longest == {ms \in shorter : Len(ms) = n - 1}
         IN shorter \cup
            UNION { { Append(ms, [name |-> nm, file |-> f]) :
                        nm \in {x \in ModNames : Unused(x, ms)}, f \in ModFiles } :
                    ms \in longest }

Boundaries ==
    { [pypath |-> {<<>>}, markers |-> {}],
      [pypath |-> {<<>>, LibDir}, markers |-> {}],
      [pypath |-> {<<>>, LibDir}, markers |-> {LibDir}],
      [pypath |-> {}, markers |-> {}] }

\* What git reports for the repository at root r.
SampleState(r) ==
    [HEAD |-> "abcdef1234567890abcdef1234567890abcdef12",
     branch |-> r[Len(r)],
     modified_files |-> <<"setup.py", "pkg/core.py">>,
     untracked_files |-> <<>>,
     diff_vs_head |-> "diff --git a/setup.py b/setup.py"]

InitWorld ==
    /\ cwd = DeepPath(1)
    /\ repoRoots \in SUBSET {DeepPath(1), GitHubDir, LibDir}
    /\ \E b \in Boundaries : pypath = b.pypath /\ markers = b.markers
    /\ repoState = [r \in repoRoots |-> SampleState(r)]
    /\ sys_modules \in ModSeqs(MaxMods)

InitScan ==
    /\ InitWorld
    /\ op = "list_imported_repos"
    /\ arg = <<>>
    /\ file0 = NoFile
    /\ Ready

NextScan == ListImportedReposCall

SpecScan == InitScan /\ [][NextScan]_vars

InitWrite ==
    /\ InitWorld
    /\ \/ /\ op = "print_repos"
          /\ arg \in {[detail |-> d] : d \in {1, 2}}
          /\ file0 = NoFile
       \/ /\ op = "save_states_to_file"
          /\ arg = [detail |-> 3]
          /\ file0 \in {NoFile, [exists |-> TRUE, content |-> <<"pkg: HEAD 0123456 (main)\n">>]}
    /\ Ready

NextWrite == PrintRepos \/ SaveStatesToFile

SpecWrite == InitWrite /\ [][NextWrite]_vars

----------------------------------------------------------------------------
(* The formatter on its own: one repository in every state made of two     *)
(* hashes, two branches, up to MaxFiles modified and untracked files and   *)
(* two diffs, asked for at the detail levels 0 to 3 in any order.          *)

RECURSIVE SeqsUpTo(_, _)
SeqsUpTo(S, n) ==
    IF n = 0 THEN {<<>>}
    ELSE LET shorter == SeqsUpTo(S, n - 1)
         IN shorter \cup
            {Append(q, x) : q \in {t \in shorter : Len(t) = n - 1}, x \in S}

RepoStates ==
    [HEAD : {"abcdef1234567890abcdef1234567890abcdef12",
             "0123456789abcdef0123456789abcdef01234567"},
     branch : {"main", "dev"},
     modified_files : SeqsUpTo({"setup.py", "pkg/core.py"}, MaxFiles),
     untracked_files : SeqsUpTo({"notes.txt", "out/fig.png"}, MaxFiles),
     diff_vs_head : {"", "diff --git a/setup.py b/setup.py"}]

InitFormat ==
    /\ cwd = DeepPath(1)
    /\ repoRoots = {DeepPath(1)}
    /\ pypath = {}
    /\ markers = {}
    /\ repoState \in [repoRoots -> RepoStates]
    /\ sys_modules = <<>>
    /\ op = "repo_state_string"
    /\ arg = [repo |-> Repo(DeepPath(1))]
    /\ file0 = NoFile
    /\ Ready

NextFormat == RepoStateStringCall

SpecFormat == InitFormat /\ [][NextFormat]_vars

----------------------------------------------------------------------------
(* The claims about _get_git_repo, under SpecWalk.                         *)

\* The absolute path the walk starts from.
WalkStart == AbsPath(arg)

\* The walk has ended, by a return or by an exception.
WalkEnded == op = "_get_git_repo" /\ pc # "ready"

\* The members of S at or above the walk's start.
Above(S) == {d \in S : IsPrefix(d, WalkStart)}

\* The deepest member of S, a non-empty set of directories of one chain.
Deepest(S) == CHOOSE d \in S : \A e \in S : Len(e) <= Len(d)

\* The repository root nearest to the start, at or above it.
NearestRoot == Deepest(Above(repoRoots))

\* The first search-boundary directory the walk from the start meets.
FirstBoundary == Deepest(Above(pypath))

\* The parent directory; the root is its own parent.
ParentOf(d) == IF d = <<>> THEN <<>> ELSE SubSeq(d, 1, Len(d) - 1)

\* d lies strictly below r, on the way from the start up to r.
StrictlyBelow(d, r) == IsPrefix(r, d) /\ Len(d) > Len(r)

\* The start lies in a repository and in no marked sub-repository below its root.
InsideRepoUnmarked ==
    /\ Above(repoRoots) # {}
    /\ \A d \in Above(markers) : ~StrictlyBelow(d, NearestRoot)

\* No search-boundary directory lies on the walk before the nearest root, and
\* that root is fewer than SafetyStart levels above the start.
NoBoundaryBeforeRoot ==
    /\ \A d \in Above(pypath) : ~StrictlyBelow(d, NearestRoot)
    /\ Len(WalkStart) - Len(NearestRoot) < SafetyStart

\* C1 as claimed: a path inside a repository rooted at R, in no nested marked
\* sub-repository, is resolved to R whatever the search-boundary directories are.
C1_AnyBoundarySet ==
    (WalkEnded /\ InsideRepoUnmarked)
        => (pc = "returned" /\ result = Repo(NearestRoot))

\* C1 as amended: a path inside a repository rooted at R, in no nested marked
\* sub-repository, is resolved to R when no search-boundary directory lies on
\* the walk strictly below R (and R is within the walk's 1000 levels).
C1_RootFoundWhenNoBoundaryBelow ==
    (WalkEnded /\ InsideRepoUnmarked /\ NoBoundaryBeforeRoot)
        => (pc = "returned" /\ result = Repo(NearestRoot))

\* A walk that climbed from a path to the root of its repository, with search
\* boundaries set at or above that root.
C1_Witness ==
    /\ WalkEnded /\ InsideRepoUnmarked /\ NoBoundaryBeforeRoot
    /\ Above(pypath) # {}
    /\ Len(WalkStart) > Len(NearestRoot) + 1
    /\ result = Repo(NearestRoot)

\* C2 as claimed: a path with no repository root at or above it is resolved to
\* None, never to the error of the 1000-step bound, with or without a search
\* boundary above it.
C2_OutsideRepoReturnsNone ==
    (WalkEnded /\ Above(repoRoots) = {})
        => (pc = "returned" /\ result = NoRepo /\ error = "")

\* C3: when nothing from the start up to the first search-boundary directory D
\* is a repository root and D holds no marker, the walk returns None and never
\* hands a proper ancestor of D to git.Repo.
C3_StopsAtFirstBoundary ==
    (/\ WalkEnded
     /\ Above(pypath) # {}
     /\ \A r \in Above(repoRoots) : ~IsPrefix(FirstBoundary, r)
     /\ FirstBoundary \notin markers)
        => /\ pc = "returned"
           /\ result = NoRepo
           /\ \A t \in tested : IsPrefix(FirstBoundary, t)

\* A walk stopped at an unmarked boundary below the start's enclosing
\* repository, which it does not return.
C3_Witness ==
    /\ WalkEnded
    /\ Above(pypath) # {}
    /\ FirstBoundary \notin markers
    /\ Len(FirstBoundary) < Len(WalkStart)
    /\ Above(repoRoots) # {}
    /\ StrictlyBelow(FirstBoundary, NearestRoot)
    /\ result = NoRepo
    /\ NearestRoot \notin tested

\* C4: at a search-boundary directory D that is no repository root, the walk
\* goes on to test D's parent (and returns it if it is a root) when D holds the
\* marker, and stops with None, testing nothing above D, when it does not. The
\* paths of the model are at most MaxDepth deep, so D is met with levels of the
\* SafetyStart allowed still left.
C4_MarkerDecidesAtBoundary ==
    WalkEnded =>
        \A d \in (tested \cap pypath) \ repoRoots :
            IF d \in markers
            THEN /\ ParentOf(d) \in tested
                 /\ ParentOf(d) \in repoRoots
                        => (pc = "returned" /\ result = Repo(ParentOf(d)))
            ELSE /\ pc = "returned"
                 /\ result = NoRepo
                 /\ \A t \in tested : IsPrefix(d, t)

\* A walk that passed a marked boundary directory and returned the repository
\* rooted at its parent.
C4_Witness ==
    /\ WalkEnded
    /\ \E d \in (tested \cap pypath \cap markers) \ repoRoots :
          /\ d # <<>>
          /\ ParentOf(d) \in repoRoots
          /\ result = Repo(ParentOf(d))

----------------------------------------------------------------------------
(* The claims about list_imported_repos, under SpecScan.                   *)

\* The module has a filesystem path: __file__ is there and is not None.
HasPath(m) == m.file.kind = "str"

\* The repository each module resolves to, NoRepo when it resolves to none.
Resolution ==
    [i \in 1..Len(sys_modules) |->
        IF HasPath(sys_modules[i])
        THEN get_git_repo(sys_modules[i].file, <<>>).repo
        ELSE NoRepo]

\* The modules that resolve to the repository with the directory gd.
ResolvingTo(gd) ==
    {i \in 1..Len(sys_modules) : Resolution[i].found /\ Resolution[i].git_dir = gd}

\* Among them, the first of those with the shortest name.
Winner(gd) ==
    CHOOSE i \in ResolvingTo(gd) :
        \A j \in ResolvingTo(gd) :
            \/ Len(sys_modules[i].name) < Len(sys_modules[j].name)
            \/ Len(sys_modules[i].name) = Len(sys_modules[j].name) /\ i <= j

\* C5: the mapping list_imported_repos returns holds every repository some
\* module resolved to exactly once and no other, under the shortest module
\* name that resolved to it, the first seen among the names of that length.
C5_OneEntryPerRootShortestName ==
    (op = "list_imported_repos" /\ pc = "returned") =>
        /\ \A i \in 1..Len(sys_modules) :
              Resolution[i].found =>
                  Cardinality({k \in 1..Len(repos) :
                                 repos[k].value = Resolution[i]}) = 1
        /\ \A k \in 1..Len(repos) :
              /\ ResolvingTo(repos[k].value.git_dir) # {}
              /\ repos[k].key = sys_modules[Winner(repos[k].value.git_dir)].name

\* A scan in which pkg.sub was seen before pkg, both in one repository, which
\* is returned once, as pkg.
C5_Witness ==
    /\ op = "list_imported_repos" /\ pc = "returned"
    /\ Len(sys_modules) = 2
    /\ sys_modules[1].name = "pkg.sub"
    /\ sys_modules[2].name = "pkg"
    /\ Resolution[1].found
    /\ Resolution[1] = Resolution[2]
    /\ Len(repos) = 1
    /\ repos[1].key = "pkg"

\* C7 as claimed: the modules that have no filesystem path, __file__ missing or
\* None, are skipped: the scan ends as the scan of the other modules alone does,
\* with the same mapping and no error of theirs.
C7_ModulesWithoutPathSkipped ==
    (op = "list_imported_repos" /\ pc # "ready") =>
        \E ref \in {list_imported_repos(SelectSeq(sys_modules, HasPath), <<>>)} :
            /\ pc = ref.status
            /\ error = ref.error
            /\ repos = ref.result

----------------------------------------------------------------------------
(* The claims about print_repos and save_states_to_file, under SpecWrite.  *)

\* C6 as claimed: print_repos writes to standard output one entry
\* "<name>: <formatted state>" for each repository of the scan, in the order of
\* the scan, and the scan and its walks write nothing.
C6_StdoutHoldsOnlyTheEntries ==
    (op = "print_repos" /\ pc = "returned")
        => stdout = StatusLines(repos, arg.detail, "")

\* C10 as claimed: save_states_to_file ends the scan before it opens the file, so
\* a file that was there keeps its content when the scan raises.
C10_FileKeptWhenScanRaises ==
    (op = "save_states_to_file" /\ pc = "raised" /\ file0.exists)
        => file = file0

----------------------------------------------------------------------------
(* The claims about repo_state_string, under SpecFormat.                   *)

\* The four detail levels have been asked for.
AllLevelsAsked == op = "repo_state_string" /\ DOMAIN result = 0..3

\* The state of the repository the formatter is asked about.
FormattedState == repoState[arg.repo.working_dir]

\* C8 as claimed: the text of each detail level is a strict prefix of the text
\* of the next level: 0 of 1, 1 of 2, 2 of 3.
C8_EachLevelPrefixOfNext ==
    AllLevelsAsked =>
        /\ StrictPrefix(result[0], result[1])
        /\ StrictPrefix(result[1], result[2])
        /\ StrictPrefix(result[2], result[3])

\* C8 as amended: the text of level 0 is a strict prefix of the texts of levels
\* 1 and 2, and the text of level 2 is a strict prefix of the text of level 3;
\* the text of level 1 is no prefix of the text of level 2.
C8_Level0AndLevel2ArePrefixes ==
    AllLevelsAsked =>
        /\ StrictPrefix(result[0], result[1])
        /\ StrictPrefix(result[0], result[2])
        /\ StrictPrefix(result[2], result[3])
        /\ ~StrictPrefix(result[1], result[2])
        /\ result[1] # result[2]

\* The four texts of a repository with modified files, untracked files and a
\* diff.
C8_Witness ==
    /\ AllLevelsAsked
    /\ Len(FormattedState.modified_files) = 2
    /\ Len(FormattedState.untracked_files) = 1
    /\ FormattedState.diff_vs_head # ""

\* C9 as claimed: the text of level 1 is
\* "HEAD <7 characters of the hash> (<branch>) - N files modified, M untracked files".
C9_Level1Text ==
    (op = "repo_state_string" /\ 1 \in DOMAIN result) =>
        result[1] = "HEAD " \o SubSeq(FormattedState.HEAD, 1, 7)
                        \o " (" \o FormattedState.branch \o ") - "
                        \o Str(Len(FormattedState.modified_files))
                        \o " files modified, "
                        \o Str(Len(FormattedState.untracked_files))
                        \o " untracked files"

====
